---- MODULE Spec2Model ----
(***************************************************************************)
(* Model of the self-update launcher of crawl-program (src/launcher):      *)
(* the launcher window (ui/launcher_window.py), the update worker thread   *)
(* (workers/update_worker.py), the notice worker thread, and the core      *)
(* collaborators they call (state, versioning, api, downloader,            *)
(* installer), over an explicit model of the launcher's directory tree.    *)
(*                                                                         *)
(* Strings are sequences of one-character strings so that strip, split,    *)
(* replace and int parsing are computed, not assumed.                      *)
(***************************************************************************)
EXTENDS Integers, Sequences, FiniteSets, TLC

(* ------------------------------------------------------------------ *)
(* Bounds of the model                                                  *)
(* ------------------------------------------------------------------ *)

\* UpdateWorker threads the launcher window starts over all launches.
MaxRuns == 3
\* UpdateWorker threads started over all launches when the orchestrator is
\* driven directly, with any auto_update.
MaxUpdates == 2
\* The same when the installation starts with leftovers of earlier runs.
MaxStaleRuns == 1
\* Body chunks a download streams at most (one chunk = one 1 MiB block).
MaxChunks == 2
\* Largest Content-Length the server announces, in the same unit.
MaxTotal == 2

(* ------------------------------------------------------------------ *)
(* Python string primitives                                             *)
(* ------------------------------------------------------------------ *)

RECURSIVE lstrip(_)
lstrip(s) ==
    IF s # <<>> /\ Head(s) = " " THEN lstrip(Tail(s)) ELSE s

RECURSIVE rstrip(_)
rstrip(s) ==
    IF s # <<>> /\ s[Len(s)] = " " THEN rstrip(SubSeq(s, 1, Len(s) - 1)) ELSE s

\* str.strip()
strip(s) == rstrip(lstrip(s))

\* str.split(sep) for a one-character separator
RECURSIVE split(_, _)
split(s, sep) ==
    IF \E i \in 1..Len(s) : s[i] = sep
    THEN LET i == CHOOSE k \in 1..Len(s) :
                    s[k] = sep /\ \A j \in 1..(k - 1) : s[j] # sep
         IN  <<SubSeq(s, 1, i - 1)>> \o split(SubSeq(s, i + 1, Len(s)), sep)
    ELSE <<s>>

\* str.replace(".", "_")
replace_dots(s) == [i \in 1..Len(s) |-> IF s[i] = "." THEN "_" ELSE s[i]]

DigitChars == <<"0", "1", "2", "3", "4", "5", "6", "7", "8", "9">>

IsDigit(c) == \E i \in 1..10 : DigitChars[i] = c

DigitVal(c) == (CHOOSE i \in 1..10 : DigitChars[i] = c) - 1

RECURSIVE DecVal(_)
DecVal(s) ==
    IF s = <<>> THEN 0
    ELSE 10 * DecVal(SubSeq(s, 1, Len(s) - 1)) + DigitVal(s[Len(s)])

\* int(str): surrounding blanks and one sign are accepted, then decimal digits
\* (digit-group underscores are outside the modelled alphabet).
py_int(p) ==
    LET t      == strip(p)
        signed == t # <<>> /\ Head(t) \in {"-", "+"}
        body   == IF signed THEN Tail(t) ELSE t
        ok     == body # <<>> /\ \A i \in 1..Len(body) : IsDigit(body[i])
    IN  [ok  |-> ok,
         val |-> IF ~ok THEN 0
                 ELSE IF signed /\ Head(t) = "-" THEN 0 - DecVal(body)
                 ELSE DecVal(body)]

(* ------------------------------------------------------------------ *)
(* launcher/core/versioning.py                                          *)
(* ------------------------------------------------------------------ *)

\* parse_semver: ok = FALSE stands for the ValueError it raises
parse_semver(v) ==
    LET s0    == strip(v)
        s     == IF s0 # <<>> /\ Head(s0) \in {"v", "V"} THEN strip(Tail(s0)) ELSE s0
        parts == split(s, ".")
        bad   == [ok |-> FALSE, t |-> <<0, 0, 0>>]
    IN  IF s0 = <<>> THEN bad
        ELSE IF Len(parts) # 3 THEN bad
        ELSE LET major == py_int(parts[1])
                 minor == py_int(parts[2])
                 patch == py_int(parts[3])
             IN  IF ~(major.ok /\ minor.ok /\ patch.ok) THEN bad
                 ELSE IF major.val < 0 \/ minor.val < 0 \/ patch.val < 0 THEN bad
                 ELSE [ok |-> TRUE, t |-> <<major.val, minor.val, patch.val>>]

\* Python tuple comparison l < s
TupleLess(l, s) ==
    \/ l[1] < s[1]
    \/ l[1] = s[1] /\ l[2] < s[2]
    \/ l[1] = s[1] /\ l[2] = s[2] /\ l[3] < s[3]

\* Variant of compare_versions with the two sides exchanged
compare_versions_rev(local_v, server_v) ==
    LET l == parse_semver(server_v)
        s == parse_semver(local_v)
    IN  IF ~(l.ok /\ s.ok) THEN [ok |-> FALSE, cmp |-> 0]
        ELSE IF TupleLess(l.t, s.t) THEN [ok |-> TRUE, cmp |-> -1]
        ELSE IF TupleLess(s.t, l.t) THEN [ok |-> TRUE, cmp |-> 1]
        ELSE [ok |-> TRUE, cmp |-> 0]

\* compare_versions: ok = FALSE stands for the ValueError of parse_semver
compare_versions(local_v, server_v) ==
    LET l == parse_semver(local_v)
        s == parse_semver(server_v)
    IN  IF ~(l.ok /\ s.ok) THEN [ok |-> FALSE, cmp |-> 0]
        ELSE IF TupleLess(l.t, s.t) THEN [ok |-> TRUE, cmp |-> -1]
        ELSE IF TupleLess(s.t, l.t) THEN [ok |-> TRUE, cmp |-> 1]
        ELSE [ok |-> TRUE, cmp |-> 0]

(* ------------------------------------------------------------------ *)
(* launcher/core/state.py                                               *)
(* ------------------------------------------------------------------ *)

\* version_to_dirname: ok = FALSE stands for ValueError("version is empty")
version_to_dirname(version) ==
    LET v == strip(version)
        u == replace_dots(v)
    IN  IF v = <<>> THEN [ok |-> FALSE, name |-> <<>>]
        ELSE [ok |-> TRUE,
              name |-> IF Head(u) = "v" THEN u ELSE <<"v">> \o u]

\* JSON values as they matter to the isinstance checks of the readers
JStr(s) == [t |-> "str", s |-> s]
JNull == [t |-> "null", s |-> <<>>]
JNum == [t |-> "num", s |-> <<>>]

\* isinstance(x, str) and x.strip()
NonBlankStr(x) == x.t = "str" /\ strip(x.s) # <<>>

CurrentState(program_id, version, server_url) ==
    [program_id |-> program_id, version |-> version, server_url |-> server_url]

NoState == CurrentState(<<>>, <<>>, <<>>)

\* A file of the data directory: absent, a JSON object with the three keys
\* (a missing key reads as null through obj.get), or text that json.loads rejects
\* (kind "partial": a write that did not finish).
JsonFile(program_id, version, server_url) ==
    [kind |-> "json", program_id |-> program_id, version |-> version,
     server_url |-> server_url]

NoFile == [kind |-> "absent", program_id |-> JNull, version |-> JNull,
           server_url |-> JNull]

PartialFile == [kind |-> "partial", program_id |-> JNull, version |-> JNull,
                server_url |-> JNull]

\* read_current_state: ok = FALSE stands for FileNotFoundError / ValueError /
\* JSONDecodeError
read_current_state(file) ==
    IF file.kind # "json" THEN [ok |-> FALSE, st |-> NoState]
    ELSE IF ~NonBlankStr(file.program_id) THEN [ok |-> FALSE, st |-> NoState]
    ELSE IF ~NonBlankStr(file.version) THEN [ok |-> FALSE, st |-> NoState]
    ELSE IF ~NonBlankStr(file.server_url) THEN [ok |-> FALSE, st |-> NoState]
    ELSE [ok |-> TRUE,
          st |-> CurrentState(strip(file.program_id.s), strip(file.version.s),
                              strip(file.server_url.s))]

\* Variant that serialises the state without its server_url
StateJson_legacy(st) == JsonFile(JStr(st.program_id), JStr(st.version), JNull)

\* The text write_current_state serialises (json.dumps of the three fields)
StateJson(st) == JsonFile(JStr(st.program_id), JStr(st.version), JStr(st.server_url))

(* ------------------------------------------------------------------ *)
(* launcher/core/api.py                                                 *)
(* ------------------------------------------------------------------ *)

\* Optional[str]
None == [some |-> FALSE, s |-> <<>>]
Some(s) == [some |-> TRUE, s |-> s]

\* x.strip() if isinstance(x, str) and x.strip() else None
StrOrNone(x) == IF NonBlankStr(x) THEN Some(strip(x.s)) ELSE None

LatestInfo(program_id, latest_version, asset_url, asset_sha256, asset_size) ==
    [program_id |-> program_id, latest_version |-> latest_version,
     asset_url |-> asset_url, asset_sha256 |-> asset_sha256,
     asset_size |-> asset_size]

NoLatest == LatestInfo(<<>>, <<>>, None, None, "none")

\* The "asset" member of the answer: kind "falsy" (missing, null, {} or another
\* falsy value: "obj.get('asset') or {}" reads it as {}), "obj" (a JSON object with
\* the three members, a missing one being null), "other" (a truthy value that
\* is no object: a non-empty string, a number, a list).
Asset(kind, url, sha256, size) ==
    [kind |-> kind, url |-> url, sha256 |-> sha256, size |-> size]

NoAsset == Asset("falsy", JNull, JNull, JNull)

\* An answer of the "latest" endpoint. net = FALSE: requests.get raised.
\* body: "garbage" (res.json() raises), "list" (JSON, but no object), "object".
LatestAnswer(net, status, body, program_id, latest_version, asset) ==
    [net |-> net, status |-> status, body |-> body, program_id |-> program_id,
     latest_version |-> latest_version, asset |-> asset]

\* fetch_latest: raised = TRUE stands for the AttributeError of calling .get on
\* a value that is no dict (outside every try of the function).
fetch_latest(a) ==
    LET fail   == [raised |-> FALSE, ok |-> FALSE, info |-> NoLatest]
        raised == [raised |-> TRUE, ok |-> FALSE, info |-> NoLatest]
    IN  IF ~a.net THEN fail
        ELSE IF a.status # 200 THEN fail
        ELSE IF a.body = "garbage" THEN fail
        ELSE IF a.body # "object" THEN raised
        ELSE IF ~NonBlankStr(a.program_id) THEN fail
        ELSE IF ~NonBlankStr(a.latest_version) THEN fail
        ELSE IF a.asset.kind = "other" THEN raised
        ELSE LET asset == IF a.asset.kind = "falsy" THEN NoAsset ELSE a.asset
             IN  [raised |-> FALSE, ok |-> TRUE,
                  info |-> LatestInfo(strip(a.program_id.s),
                                      strip(a.latest_version.s),
                                      StrOrNone(asset.url),
                                      StrOrNone(asset.sha256),
                                      IF asset.size.t = "num" THEN "int" ELSE "none")]

\* str.upper() on the letters of the modelled alphabet
UpperChar(c) ==
    CASE c = "i" -> "I" [] c = "n" -> "N" [] c = "f" -> "F" [] c = "o" -> "O"
      [] c = "d" -> "D" [] c = "e" -> "E" [] c = "b" -> "B" [] c = "u" -> "U"
      [] c = "g" -> "G" [] OTHER -> c

upper(s) == [i \in 1..Len(s) |-> UpperChar(s[i])]

INFO == <<"I", "N", "F", "O">>
CRITICAL == <<"C", "R", "I", "T", "I", "C", "A", "L">>
IMPORTANT == <<"I", "M", "P", "O", "R", "T", "A", "N", "T">>

NoticeInfo(notice_id, level, force) ==
    [notice_id |-> notice_id, level |-> level, force |-> force]

NoNotice == NoticeInfo(<<>>, <<>>, FALSE)

\* An answer of the "notices/latest" endpoint. wrap: what obj.get("notice")
\* yields: "falsy" (the object itself is the notice), "obj" (the wrapped notice),
\* "other" (a truthy value that is no object). id, level, force are the
\* members of the notice object; force = TRUE iff the member is JSON true.
NoticeAnswer(net, status, body, wrap, id, level, force) ==
    [net |-> net, status |-> status, body |-> body, wrap |-> wrap, id |-> id,
     level |-> level, force |-> force]

\* fetch_latest_notice: has = FALSE with ok = TRUE is (True, "no notice", None)
fetch_latest_notice(a) ==
    LET fail   == [raised |-> FALSE, ok |-> FALSE, has |-> FALSE, info |-> NoNotice]
        raised == [raised |-> TRUE, ok |-> FALSE, has |-> FALSE, info |-> NoNotice]
    IN  IF ~a.net THEN fail
        ELSE IF a.status = 204 THEN [fail EXCEPT !.ok = TRUE]
        ELSE IF a.status # 200 THEN fail
        ELSE IF a.body = "garbage" THEN fail
        ELSE IF a.body # "object" THEN raised
        ELSE IF a.wrap = "other" THEN fail
        ELSE IF ~NonBlankStr(a.id) THEN fail
        ELSE LET level == IF NonBlankStr(a.level) THEN a.level.s ELSE INFO
             IN  [raised |-> FALSE, ok |-> TRUE, has |-> TRUE,
                  info |-> NoticeInfo(strip(a.id.s), upper(strip(level)), a.force)]

(* ------------------------------------------------------------------ *)
(* The modelled universe: versions, server answers, directory contents  *)
(* ------------------------------------------------------------------ *)

V090 == <<"0", ".", "9", ".", "0">>
V100 == <<"1", ".", "0", ".", "0">>
V101 == <<"1", ".", "0", ".", "1">>
\* not a three-component version
V10 == <<"1", ".", "0">>

PID == <<"p">>
URL == <<"u">>
ASSET_URL == <<"a">>

\* latest_version strings the server may answer with
RemoteVersions == {V090, V100, V101, V10}

\* The versions that parse: the ones a version directory can be named after
ValidVersions == {v \in RemoteVersions : parse_semver(v).ok}

DirNames == {version_to_dirname(v).name : v \in ValidVersions}

GoodAsset == Asset("obj", JStr(ASSET_URL), JNull, JNull)

\* Answers of GET .../latest the environment may give
LatestAnswers ==
    {LatestAnswer(FALSE, 0, "garbage", JNull, JNull, NoAsset)}
    \cup {LatestAnswer(TRUE, 200, "object", JStr(PID), JStr(v), GoodAsset) :
            v \in RemoteVersions}
    \cup {LatestAnswer(TRUE, 200, "object", JStr(PID), JStr(V101), NoAsset),
          LatestAnswer(TRUE, 200, "object", JStr(PID), JStr(V101),
                       Asset("other", JNull, JNull, JNull)),
          LatestAnswer(TRUE, 200, "list", JNull, JNull, NoAsset)}

\* Answers of GET .../notices/latest the environment may give
NoticeAnswers ==
    {NoticeAnswer(FALSE, 0, "garbage", "falsy", JNull, JNull, FALSE),
     NoticeAnswer(TRUE, 204, "garbage", "falsy", JNull, JNull, FALSE),
     NoticeAnswer(TRUE, 200, "object", "obj", JStr(<<"n">>), JStr(CRITICAL), FALSE),
     NoticeAnswer(TRUE, 200, "object", "falsy", JStr(<<"n">>), JNull, FALSE),
     NoticeAnswer(TRUE, 200, "list", "falsy", JNull, JNull, FALSE)}

EXE == "CrawlProgram.exe"
LIB == "lib.dll"

File(name, data) == [name |-> name, data |-> data]

\* A directory: e = it exists, f = the files below it (any nesting level)
Dir(files) == [e |-> TRUE, f |-> files]
Absent == [e |-> FALSE, f |-> {}]

\* What the packaged installation ships under versions/<v>
OldInstall == Dir({File(EXE, "old"), File(LIB, "old")})

\* The archives the asset URL may serve; "corrupt" is no zip at all
ArchiveKinds == {"good", "noexe", "corrupt"}

ArchiveFiles(kind) ==
    CASE kind = "good" -> {File(EXE, "new")}
      [] kind = "noexe" -> {File(LIB, "new")}
      [] OTHER -> {}

\* ZipFile.extractall: a member replaces a file of the same name
Extract(dir, files) ==
    Dir({x \in dir.f : \A y \in files : y.name # x.name} \cup files)

\* Optional[Path] of an executable: the version directory it lies under and
\* the bytes it holds
NoPath == [some |-> FALSE, dir |-> <<>>, root |-> "", data |-> ""]
ExePath(root, dir, data) == [some |-> TRUE, dir |-> dir, root |-> root, data |-> data]

\* Variant of _find_exe that gives a path without looking for the file
find_exe_any(root, name, d) == ExePath(root, name, "new")

\* _find_exe(root, "CrawlProgram.exe") for a directory of the tree
\* <root>/<name> holding d
find_exe(root, name, d) ==
    IF d.e /\ \E x \in d.f : x.name = EXE
    THEN ExePath(root, name, (CHOOSE x \in d.f : x.name = EXE).data)
    ELSE NoPath

\* "if d.exists(): shutil.rmtree(d, ignore_errors=True)": the tree is gone, or
\* a deletion error was ignored and it is still there, whole or down to the
\* locked executable
RmtreeOutcomes(d) ==
    IF ~d.e THEN {d} ELSE {Absent, d, Dir({x \in d.f : x.name = EXE})}

(* ------------------------------------------------------------------ *)
(* launcher/workers/update_worker.py: UpdateResult                      *)
(* ------------------------------------------------------------------ *)

UpdateResult(ok, message, exe_path, update_available, latest_version, asset_url) ==
    [ok |-> ok, message |-> message, exe_path |-> exe_path,
     update_available |-> update_available, latest_version |-> latest_version,
     asset_url |-> asset_url]

\* UpdateResult(False, message, exe_path, False)
Failed(message, exe_path) == UpdateResult(FALSE, message, exe_path, FALSE, <<>>, None)

\* UpdateResult(True, message, exe_path, False)
Ok(message, exe_path) == UpdateResult(TRUE, message, exe_path, FALSE, <<>>, None)

NoResult == UpdateResult(FALSE, "none", NoPath, FALSE, <<>>, None)

(* ------------------------------------------------------------------ *)
(* State                                                                *)
(* ------------------------------------------------------------------ *)

VARIABLES
    \* --- the directory tree below base_dir (survives the process) ---
    current_json,    \* data/current.json
    current_tmp,     \* data/current.tmp
    versions,        \* versions/<dirname>, for each directory name
    bak,             \* versions/<dirname>__bak
    staging_root,    \* versions/_staging and versions/_staging/<program_id> exist
    staging,         \* versions/_staging/<program_id>/<dirname>
    downloads_tmp,   \* downloads_tmp/ exists
    zip,             \* downloads_tmp/<program_id>_<version>.zip, by version
    part,            \* the same path + ".part"
    \* --- the launcher process ---
    win,             \* "down": no process; "open": LauncherWindow shown
    ui,              \* LauncherWindow's widgets and fields
    worker,          \* self.worker: index into threads, 0 = None
    threads,         \* the UpdateWorker threads of this process
    started,         \* UpdateWorker threads started over all launches
    emitted,         \* per UpdateWorker: sig_done emissions so far
    doneq,           \* sig_done events queued to the UI thread
    nthread,         \* self.notice_worker's thread
    noticeq,         \* NoticeWorker.sig_done events queued to the UI thread
    r,               \* locals of the run of threads[worker]
    launched,        \* executables started by run_exe
    \* --- a single call of a function of core/ ---
    calc,            \* the call's arguments and what it returned
    \* --- the launched program ---
    mw               \* its MainWindow, the CleanupWorker and the Qt event loop

fs == <<current_json, current_tmp, versions, bak, staging_root, staging,
        downloads_tmp, zip, part>>

gui == <<win, ui, worker, nthread, noticeq, launched>>

vars == <<current_json, current_tmp, versions, bak, staging_root, staging,
          downloads_tmp, zip, part, win, ui, worker, threads, started, emitted,
          doneq,
          nthread, noticeq, r, launched, calc, mw>>

\* The launched program is not running
NoMainWindow == [app |-> "none"]

\* No function has been called
NoCall == [op |-> "none"]

\* UiState as apply_state leaves it on the buttons
UiState(busy, can_run, can_retry) ==
    [btn_run |-> can_run /\ ~busy, btn_retry |-> can_retry /\ ~busy,
     btn_close |-> ~busy]

\* LauncherWindow.__init__: fields, initial apply_state, the startup timer
NewWindow ==
    [buttons |-> UiState(TRUE, FALSE, FALSE),
     last_result |-> NoResult, has_result |-> FALSE, has_notice |-> FALSE,
     timer |-> "startup", dialog |-> "none"]

\* Locals of UpdateWorker.run / _run_impl and of the functions it is inside
IdleRun ==
    [pc |-> "idle", auto_update |-> FALSE, st |-> NoState, latest |-> NoLatest,
     exe_local |-> NoPath, dir_name |-> <<>>, result |-> NoResult,
     total |-> 0, bytes_written |-> 0, probe |-> "none",
     progress |-> <<>>, stages |-> <<>>, ignored |-> FALSE, json0 |-> NoFile,
     \* promote_staging: what staging_dir and target_dir held when it was called,
     \* whether target_dir was renamed aside, whether an rmtree of backup_dir
     \* left something behind
     staged |-> Absent, prev_target |-> Absent, aside |-> FALSE, bak_kept |-> FALSE,
     \* what earlier runs had left behind when this one started
     left0 |-> {},
     \* download_file: what dst_path and dst_path + ".part" were when it was called
     zip0 |-> "absent", part0 |-> "absent"]

\* An installation before the first launch: data/current.json names 1.0.0 and
\* versions/v1_0_0 holds it; or the launcher alone was installed and
\* versions/ is still empty; or data/current.json is missing, or lacks
\* server_url, or has a blank version, or a program_id that is no string
Installation(json, dir) == [json |-> json, dir |-> dir]

Installations ==
    {Installation(StateJson(CurrentState(PID, V100, URL)), OldInstall),
     Installation(StateJson(CurrentState(PID, V100, URL)), Absent),
     Installation(NoFile, OldInstall),
     Installation(JsonFile(JStr(PID), JStr(V100), JNull), OldInstall),
     Installation(JsonFile(JStr(PID), JStr(<<" ">>), JStr(URL)), OldInstall),
     Installation(JsonFile(JNum, JStr(V100), JStr(URL)), OldInstall)}

\* The installation and the launcher before it is started
InitLauncher ==
    /\ \E i \in Installations :
         /\ current_json = i.json
         /\ versions = [d \in DirNames |->
                          IF d = version_to_dirname(V100).name THEN i.dir ELSE Absent]
    /\ current_tmp = NoFile
    /\ bak = [d \in DirNames |-> Absent]
    /\ staging_root = FALSE
    /\ staging = [d \in DirNames |-> Absent]
    /\ downloads_tmp = FALSE
    /\ zip = [v \in ValidVersions |-> "absent"]
    /\ part = [v \in ValidVersions |-> "absent"]
    /\ win = "down"
    /\ ui = NewWindow
    /\ worker = 0
    /\ threads = <<>>
    /\ started = 0
    /\ emitted = <<>>
    /\ doneq = <<>>
    /\ nthread = "none"
    /\ noticeq = <<>>
    /\ r = IdleRun
    /\ launched = {}

Init ==
    /\ InitLauncher
    /\ calc = NoCall
    /\ mw = NoMainWindow

\* What a crashed or failed run leaves behind: downloads_tmp/<zip>.part,
\* downloads_tmp/<zip>, versions/_staging/<pid>/<dir>, versions/<dir>__bak,
\* a promoted versions/<dir> that current.json does not name, data/current.tmp
LeftoverKinds == {"part", "zip", "staging", "bak", "target", "tmp"}

StaleDir == Dir({File(EXE, "stale"), File(LIB, "stale")})

\* The leftovers below base_dir
Leftovers ==
    {k \in LeftoverKinds :
       \/ k = "part" /\ \E v \in ValidVersions : part[v] # "absent"
       \/ k = "zip" /\ \E v \in ValidVersions : zip[v] # "absent"
       \/ k = "staging" /\ \E d \in DirNames : staging[d].e
       \/ k = "bak" /\ \E d \in DirNames : bak[d].e
       \/ k = "target" /\ \E d \in DirNames :
             /\ versions[d].e
             /\ d # version_to_dirname(read_current_state(current_json).st.version).name
       \/ k = "tmp" /\ current_tmp.kind # "absent"}

\* The intact installation of 1.0.0 with any combination of leftovers of an
\* update to 1.0.1 that did not complete
InitStale ==
    /\ \E L \in SUBSET LeftoverKinds :
         LET D == version_to_dirname(V101).name
         IN  /\ versions = [d \in DirNames |->
                              IF d = version_to_dirname(V100).name THEN OldInstall
                              ELSE IF d = D /\ "target" \in L THEN StaleDir
                              ELSE Absent]
             /\ bak = [d \in DirNames |->
                         IF d = D /\ "bak" \in L THEN StaleDir ELSE Absent]
             /\ staging = [d \in DirNames |->
                             IF d = D /\ "staging" \in L THEN StaleDir ELSE Absent]
             /\ staging_root = ("staging" \in L)
             /\ downloads_tmp = ("part" \in L \/ "zip" \in L)
             /\ zip = [v \in ValidVersions |->
                         IF v = V101 /\ "zip" \in L THEN "noexe" ELSE "absent"]
             /\ part = [v \in ValidVersions |->
                          IF v = V101 /\ "part" \in L THEN "partial" ELSE "absent"]
             /\ current_tmp = IF "tmp" \in L THEN PartialFile ELSE NoFile
    /\ current_json = StateJson(CurrentState(PID, V100, URL))
    /\ win = "down"
    /\ ui = NewWindow
    /\ worker = 0
    /\ threads = <<>>
    /\ started = 0
    /\ emitted = <<>>
    /\ doneq = <<>>
    /\ nthread = "none"
    /\ noticeq = <<>>
    /\ r = IdleRun
    /\ launched = {}
    /\ calc = NoCall
    /\ mw = NoMainWindow
(* ------------------------------------------------------------------ *)
(* launcher/workers/update_worker.py: UpdateWorker.run / _run_impl      *)
(* One action per step of the run; every filesystem call is a step of   *)
(* its own, so that the process can die between any two of them.        *)
(* ------------------------------------------------------------------ *)

\* QThread.isRunning() of thread w
isRunning(w) == threads[w] = "running"

\* The thread of self.worker is executing and stands at label pc
At(pc) == win = "open" /\ worker # 0 /\ isRunning(worker) /\ r.pc = pc

\* UpdateWorker._progress: the percentage sig_progress carries
_progress(p) == IF p < 0 THEN 0 ELSE IF p > 100 THEN 100 ELSE p

Emitted(run, p) == [run EXCEPT !.progress = Append(@, _progress(p))]

\* _run_impl returns res: run() goes on to emit it
Return(run, res) ==
    [run EXCEPT !.pc = "emit", !.result = res, !.total = 0, !.bytes_written = 0,
                !.probe = "none"]

\* A deletion error was ignored (ignore_errors=True, "except: pass")
Ignored(run) == [run EXCEPT !.ignored = TRUE]

\* The same inside promote_staging, for backup_dir
IgnoredBak(run) == [Ignored(run) EXCEPT !.bak_kept = TRUE]

\* Variant of run() without the catch-all: the thread ends on the exception
Raise_uncaught(run) == [run EXCEPT !.pc = "exit"]

\* An exception leaves _run_impl: the catch-all of run() builds the result
Raise(run) == Return(run, Failed("unexpected error", NoPath))

\* Variant that builds the path of the executable without is_file()
resolve_latest_exe_unchecked(st) ==
    ExePath("versions", version_to_dirname(st.version).name, "old")

\* _resolve_latest_exe_from_state
resolve_latest_exe_from_state(st) ==
    LET d == version_to_dirname(st.version).name
    IN  IF d \in DirNames THEN find_exe("versions", d, versions[d]) ELSE NoPath

\* The names of the run in progress
ZipKey == r.latest.latest_version
DirName == r.dir_name

\* _run_impl, lines 72-78: _progress(0), read_current_state
ReadState ==
    /\ At("start")
    /\ LET rd  == read_current_state(current_json)
           run == Emitted(r, 0)
       IN  r' = IF rd.ok THEN [run EXCEPT !.pc = "fetch", !.st = rd.st]
                ELSE Raise(run)
    /\ UNCHANGED <<fs, gui, threads, started, emitted, doneq>>
    /\ UNCHANGED <<calc, mw>>

\* lines 80-89: fetch_latest
FetchLatest ==
    /\ At("fetch")
    /\ \E a \in LatestAnswers :
         LET res == fetch_latest(a)
         IN  r' = IF res.raised THEN Raise(r)
                  ELSE IF ~res.ok THEN Return(r, Failed("fetch_latest failed", NoPath))
                  ELSE [r EXCEPT !.pc = "compare", !.latest = res.info]
    /\ UNCHANGED <<fs, gui, threads, started, emitted, doneq>>
    /\ UNCHANGED <<calc, mw>>

\* Variant that reports the installed version as the latest one
update_available_result_local(run, exe) ==
    UpdateResult(TRUE, "update available", exe, TRUE,
                 run.st.version, run.latest.asset_url)

\* lines 114-122: the result of a check that found a newer version
update_available_result(run, exe) ==
    UpdateResult(TRUE, "update available", exe, TRUE,
                 run.latest.latest_version, run.latest.asset_url)

\* Variant that takes a version it cannot parse for a newer one
Compare_lenient ==
    /\ At("compare")
    /\ LET c   == compare_versions(r.st.version, r.latest.latest_version)
           exe == resolve_latest_exe_from_state(r.st)
       IN  r' = IF c.ok /\ c.cmp > 0
                  THEN IF ~exe.some THEN Return(r, Failed("latest exe not found", NoPath))
                       ELSE Return(r, Ok("ok(local newer)", exe))
                ELSE IF c.ok /\ c.cmp = 0
                  THEN IF ~exe.some THEN Return(r, Failed("latest exe not found", NoPath))
                       ELSE Return(r, Ok("ok(up-to-date)", exe))
                ELSE IF ~r.auto_update
                  THEN Return(r, update_available_result(r, exe))
                ELSE IF ~r.latest.asset_url.some
                  THEN Return(r, Failed("asset_url is empty", exe))
                ELSE [r EXCEPT !.pc = "probe", !.exe_local = exe]
    /\ UNCHANGED <<fs, gui, threads, started, emitted, doneq>>
    /\ UNCHANGED <<calc, mw>>

\* lines 91-126: compare_versions and the branches that end the run at once
Compare ==
    /\ At("compare")
    /\ LET c   == compare_versions(r.st.version, r.latest.latest_version)
           exe == resolve_latest_exe_from_state(r.st)
       IN  r' = IF ~c.ok THEN Raise(r)
                ELSE IF c.cmp > 0
                  THEN IF ~exe.some THEN Return(r, Failed("latest exe not found", NoPath))
                       ELSE Return(r, Ok("ok(local newer)", exe))
                ELSE IF c.cmp = 0
                  THEN IF ~exe.some THEN Return(r, Failed("latest exe not found", NoPath))
                       ELSE Return(r, Ok("ok(up-to-date)", exe))
                ELSE IF ~r.auto_update
                  THEN Return(r, update_available_result(r, exe))
                ELSE IF ~r.latest.asset_url.some
                  THEN Return(r, Failed("asset_url is empty", exe))
                ELSE [r EXCEPT !.pc = "probe", !.exe_local = exe]
    /\ UNCHANGED <<fs, gui, threads, started, emitted, doneq>>
    /\ UNCHANGED <<calc, mw>>

\* Variant in which a failed probe ends the run
Probe_gating ==
    /\ At("probe")
    /\ \/ r' = [r EXCEPT !.pc = "dl_mkdir", !.probe = "ok"]
       \/ r' = [Return(r, Failed("probe failed", r.exe_local)) EXCEPT !.probe = "failed"]
    /\ UNCHANGED <<fs, gui, threads, started, emitted, doneq>>
    /\ UNCHANGED <<calc, mw>>

\* lines 128-131: probe_url; its outcome is only logged
Probe ==
    /\ At("probe")
    /\ \E ok2 \in BOOLEAN :
         r' = [r EXCEPT !.pc = "dl_mkdir", !.probe = IF ok2 THEN "ok" ELSE "failed"]
    /\ UNCHANGED <<fs, gui, threads, started, emitted, doneq>>
    /\ UNCHANGED <<calc, mw>>

(* ---- launcher/core/downloader.py: download_file ---- *)

\* download_file gives (False, ...): _run_impl lines 148-149
DownloadFailed(run) == Return(run, Failed("download failed", run.exe_local))

\* line 41: dst_path.parent.mkdir, before the try
DlMkdir ==
    /\ At("dl_mkdir")
    /\ \/ /\ downloads_tmp' = TRUE
          /\ r' = [r EXCEPT !.pc = "dl_get", !.probe = "none",
                            !.zip0 = zip[ZipKey], !.part0 = part[ZipKey]]
       \/ /\ ~downloads_tmp
          /\ r' = Raise(r)
          /\ UNCHANGED downloads_tmp
    /\ UNCHANGED <<current_json, current_tmp, versions, bak, staging_root, staging,
                   zip, part, gui, threads, started, emitted, doneq>>
    /\ UNCHANGED <<calc, mw>>

\* lines 46-54: requests.get, the status check, Content-Length
DlGet ==
    /\ At("dl_get")
    /\ \/ r' = [r EXCEPT !.pc = "dl_except"]
       \/ r' = DownloadFailed(r)
       \/ \E total \in 0..MaxTotal :
            r' = [r EXCEPT !.pc = "dl_open", !.total = total, !.bytes_written = 0]
    /\ UNCHANGED <<fs, gui, threads, started, emitted, doneq>>
    /\ UNCHANGED <<calc, mw>>

\* line 57: open(tmp_path, "wb")
DlOpen ==
    /\ At("dl_open")
    /\ \/ /\ part' = [part EXCEPT ![ZipKey] = "partial"]
          /\ r' = [r EXCEPT !.pc = "dl_chunk"]
       \/ /\ r' = [r EXCEPT !.pc = "dl_except"]
          /\ UNCHANGED part
    /\ UNCHANGED <<current_json, current_tmp, versions, bak, staging_root, staging,
                   downloads_tmp, zip, gui, threads, started, emitted, doneq>>
    /\ UNCHANGED <<calc, mw>>

\* on_dl_progress, _run_impl lines 137-140
on_dl_progress(run, written, total) ==
    IF total > 0 THEN Emitted(run, (written * 80) \div total) ELSE run

\* lines 58-68: one turn of the chunk loop, its end, or an error in it
DlChunk ==
    /\ At("dl_chunk")
    /\ \/ /\ r.bytes_written < MaxChunks
          /\ r' = on_dl_progress([r EXCEPT !.bytes_written = @ + 1],
                                 r.bytes_written + 1, r.total)
          /\ UNCHANGED part
       \/ /\ r' = [r EXCEPT !.pc = "dl_except"]
          /\ UNCHANGED part
       \/ /\ \E k \in ArchiveKinds :
               /\ r.bytes_written = 0 => k = "corrupt"
               /\ part' = [part EXCEPT ![ZipKey] = k]
          /\ r' = [r EXCEPT !.pc = "dl_unlink"]
    /\ UNCHANGED <<current_json, current_tmp, versions, bak, staging_root, staging,
                   downloads_tmp, zip, gui, threads, started, emitted, doneq>>
    /\ UNCHANGED <<calc, mw>>

\* lines 71-75: dst_path.unlink() when it exists, errors ignored
DlUnlink ==
    /\ At("dl_unlink")
    /\ \/ /\ zip' = [zip EXCEPT ![ZipKey] = "absent"]
          /\ r' = [r EXCEPT !.pc = "dl_rename"]
       \/ /\ zip[ZipKey] # "absent"
          /\ r' = [Ignored(r) EXCEPT !.pc = "dl_rename"]
          /\ UNCHANGED zip
    /\ UNCHANGED <<current_json, current_tmp, versions, bak, staging_root, staging,
                   downloads_tmp, part, gui, threads, started, emitted, doneq>>
    /\ UNCHANGED <<calc, mw>>

\* lines 77-78: tmp_path.rename(dst_path); then _run_impl lines 151-155.
\* Over an existing dst_path the rename fails (Windows) or replaces it (POSIX).
DlRename ==
    /\ At("dl_rename")
    /\ \/ /\ zip' = [zip EXCEPT ![ZipKey] = part[ZipKey]]
          /\ part' = [part EXCEPT ![ZipKey] = "absent"]
          /\ r' = [Emitted(r, 85) EXCEPT
                     !.pc = "uz_rmtree", !.total = 0, !.bytes_written = 0,
                     !.stages = Append(@, "download"),
                     !.dir_name = version_to_dirname(r.latest.latest_version).name]
       \/ /\ r' = [r EXCEPT !.pc = "dl_except"]
          /\ UNCHANGED <<zip, part>>
    /\ UNCHANGED <<current_json, current_tmp, versions, bak, staging_root, staging,
                   downloads_tmp, gui, threads, started, emitted, doneq>>
    /\ UNCHANGED <<calc, mw>>

\* lines 80-87: the except branch removes the .part file, errors ignored
DlExcept ==
    /\ At("dl_except")
    /\ \/ /\ part' = [part EXCEPT ![ZipKey] = "absent"]
          /\ r' = DownloadFailed(r)
       \/ /\ part[ZipKey] # "absent"
          /\ r' = DownloadFailed(Ignored(r))
          /\ UNCHANGED part
    /\ UNCHANGED <<current_json, current_tmp, versions, bak, staging_root, staging,
                   downloads_tmp, zip, gui, threads, started, emitted, doneq>>
    /\ UNCHANGED <<calc, mw>>

(* ---- launcher/core/installer.py: unzip_to_staging ---- *)

\* unzip_to_staging gives (False, ...): _run_impl lines 162-163
UnzipFailed(run) == Return(run, Failed("unzip failed", run.exe_local))

\* Variant of lines 11-16 that leaves an existing staging_dir as it is
UzRmtree_skip ==
    /\ At("uz_rmtree")
    /\ r' = IF zip[ZipKey] = "absent" THEN UnzipFailed(r)
            ELSE [r EXCEPT !.pc = "uz_mkdir"]
    /\ UNCHANGED <<fs, gui, threads, started, emitted, doneq>>
    /\ UNCHANGED <<calc, mw>>

\* lines 11-16: the zip must exist; an existing staging_dir is removed with
\* ignore_errors=True
UzRmtree ==
    /\ At("uz_rmtree")
    /\ IF zip[ZipKey] = "absent"
       THEN r' = UnzipFailed(r) /\ UNCHANGED staging
       ELSE \E d \in RmtreeOutcomes(staging[DirName]) :
              /\ staging' = [staging EXCEPT ![DirName] = d]
              /\ r' = [(IF d.e THEN Ignored(r) ELSE r) EXCEPT !.pc = "uz_mkdir"]
    /\ UNCHANGED <<current_json, current_tmp, versions, bak, staging_root,
                   downloads_tmp, zip, part, gui, threads, started, emitted, doneq>>
    /\ UNCHANGED <<calc, mw>>

\* line 17: staging_dir.mkdir(parents=True, exist_ok=True)
UzMkdir ==
    /\ At("uz_mkdir")
    /\ \/ /\ staging_root' = TRUE
          /\ staging' = [staging EXCEPT ![DirName] = Dir(@.f)]
          /\ r' = [r EXCEPT !.pc = "uz_extract"]
       \/ /\ ~staging[DirName].e
          /\ r' = UnzipFailed(r)
          /\ UNCHANGED <<staging_root, staging>>
    /\ UNCHANGED <<current_json, current_tmp, versions, bak, downloads_tmp, zip,
                   part, gui, threads, started, emitted, doneq>>
    /\ UNCHANGED <<calc, mw>>

\* lines 19-24: ZipFile(zip_path).extractall(staging_dir): all members, or an
\* error after some of them (at once for a file that is no zip)
UzExtract ==
    /\ At("uz_extract")
    /\ \/ /\ zip[ZipKey] # "corrupt"
          /\ staging' = [staging EXCEPT
                           ![DirName] = Extract(@, ArchiveFiles(zip[ZipKey]))]
          /\ r' = [r EXCEPT !.pc = "find", !.stages = Append(@, "unpack")]
       \/ /\ \E some \in SUBSET ArchiveFiles(zip[ZipKey]) :
               /\ some # ArchiveFiles(zip[ZipKey]) \/ some = {}
               /\ staging' = [staging EXCEPT ![DirName] = Extract(@, some)]
          /\ r' = UnzipFailed(r)
    /\ UNCHANGED <<current_json, current_tmp, versions, bak, staging_root,
                   downloads_tmp, zip, part, gui, threads, started, emitted, doneq>>
    /\ UNCHANGED <<calc, mw>>

\* _run_impl lines 165-173: _find_exe in staging, then _progress(92)
FindExe ==
    /\ At("find")
    /\ r' = IF ~find_exe("staging", DirName, staging[DirName]).some
            THEN Return(r, Failed("exe not found in zip", r.exe_local))
            ELSE [Emitted(r, 92) EXCEPT !.pc = "pr_rmbak", !.stages = Append(@, "exe"),
                                        !.staged = staging[DirName],
                                        !.prev_target = versions[DirName]]
    /\ UNCHANGED <<fs, gui, threads, started, emitted, doneq>>
    /\ UNCHANGED <<calc, mw>>

(* ---- launcher/core/installer.py: promote_staging ---- *)

\* Variant in which a failed promote_staging does not end the run
PromoteFailed_onward(run) == [run EXCEPT !.pc = "ws_open"]

\* promote_staging gives (False, ...): _run_impl lines 181-182
PromoteFailed(run) == Return(run, Failed("promote failed", run.exe_local))

\* lines 32-42: staging must exist; a stale backup_dir is removed with
\* ignore_errors=True
PrRmBak ==
    /\ At("pr_rmbak")
    /\ IF ~staging[DirName].e
       THEN r' = PromoteFailed(r) /\ UNCHANGED bak
       ELSE \E d \in RmtreeOutcomes(bak[DirName]) :
              /\ bak' = [bak EXCEPT ![DirName] = d]
              /\ r' = [(IF d.e THEN IgnoredBak(r) ELSE r) EXCEPT !.pc = "pr_tobak"]
    /\ UNCHANGED <<current_json, current_tmp, versions, staging_root, staging,
                   downloads_tmp, zip, part, gui, threads, started, emitted, doneq>>
    /\ UNCHANGED <<calc, mw>>

\* lines 45-46: an existing target_dir is renamed to backup_dir; the rename
\* raises over an existing backup_dir (unless, on POSIX, that one is empty)
PrToBak ==
    /\ At("pr_tobak")
    /\ IF ~versions[DirName].e
       THEN r' = [r EXCEPT !.pc = "pr_rename"] /\ UNCHANGED <<versions, bak>>
       ELSE \/ /\ ~bak[DirName].e \/ bak[DirName].f = {}
               /\ bak' = [bak EXCEPT ![DirName] = versions[DirName]]
               /\ versions' = [versions EXCEPT ![DirName] = Absent]
               /\ r' = [r EXCEPT !.pc = "pr_rename", !.aside = TRUE]
            \/ /\ r' = PromoteFailed(r)
               /\ UNCHANGED <<versions, bak>>
    /\ UNCHANGED <<current_json, current_tmp, staging_root, staging,
                   downloads_tmp, zip, part, gui, threads, started, emitted, doneq>>
    /\ UNCHANGED <<calc, mw>>

\* Variant of line 49 that copies staging_dir and leaves it in place
PrRename_copy ==
    /\ At("pr_rename")
    /\ \/ /\ ~versions[DirName].e
          /\ versions' = [versions EXCEPT ![DirName] = staging[DirName]]
          /\ r' = [r EXCEPT !.pc = "pr_rmbak2"]
       \/ /\ r' = PromoteFailed(r)
          /\ UNCHANGED versions
    /\ UNCHANGED <<current_json, current_tmp, bak, staging_root, staging,
                   downloads_tmp, zip, part, gui, threads, started, emitted, doneq>>
    /\ UNCHANGED <<calc, mw>>

\* Variant of line 49 that renames backup_dir back when the rename fails
PrRename_restore ==
    /\ At("pr_rename")
    /\ \/ /\ ~versions[DirName].e
          /\ versions' = [versions EXCEPT ![DirName] = staging[DirName]]
          /\ staging' = [staging EXCEPT ![DirName] = Absent]
          /\ r' = [r EXCEPT !.pc = "pr_rmbak2"]
          /\ UNCHANGED bak
       \/ /\ r' = PromoteFailed(r)
          /\ versions' = [versions EXCEPT ![DirName] = bak[DirName]]
          /\ bak' = [bak EXCEPT ![DirName] = Absent]
          /\ UNCHANGED staging
    /\ UNCHANGED <<current_json, current_tmp, staging_root,
                   downloads_tmp, zip, part, gui, threads, started, emitted, doneq>>
    /\ UNCHANGED <<calc, mw>>

\* line 49: staging_dir.rename(target_dir)
PrRename ==
    /\ At("pr_rename")
    /\ \/ /\ ~versions[DirName].e
          /\ versions' = [versions EXCEPT ![DirName] = staging[DirName]]
          /\ staging' = [staging EXCEPT ![DirName] = Absent]
          /\ r' = [r EXCEPT !.pc = "pr_rmbak2"]
       \/ /\ r' = PromoteFailed(r)
          /\ UNCHANGED <<versions, staging>>
    /\ UNCHANGED <<current_json, current_tmp, bak, staging_root,
                   downloads_tmp, zip, part, gui, threads, started, emitted, doneq>>
    /\ UNCHANGED <<calc, mw>>

\* lines 52-55: backup_dir is removed with ignore_errors=True; then _run_impl
\* lines 184-185
PrRmBak2 ==
    /\ At("pr_rmbak2")
    /\ \E d \in RmtreeOutcomes(bak[DirName]) :
         /\ bak' = [bak EXCEPT ![DirName] = d]
         /\ r' = [Emitted(IF d.e THEN IgnoredBak(r) ELSE r, 96) EXCEPT
                    !.pc = "ws_open", !.stages = Append(@, "promote")]
    /\ UNCHANGED <<current_json, current_tmp, versions, staging_root, staging,
                   downloads_tmp, zip, part, gui, threads, started, emitted, doneq>>
    /\ UNCHANGED <<calc, mw>>

(* ---- launcher/core/state.py: write_current_state ---- *)

\* Variant that persists the version read at the start of the run
new_state_local == CurrentState(r.st.program_id, r.st.version, r.st.server_url)

\* _run_impl lines 187-191
new_state == CurrentState(r.st.program_id, r.latest.latest_version, r.st.server_url)

\* Variant of line 61 that opens data/current.json itself for writing
WsOpen_inplace ==
    /\ At("ws_open")
    /\ \/ /\ current_json' = PartialFile
          /\ r' = [r EXCEPT !.pc = "ws_write"]
       \/ /\ r' = Raise(r)
          /\ UNCHANGED current_json
    /\ UNCHANGED <<current_tmp, versions, bak, staging_root, staging,
                   downloads_tmp, zip, part, gui, threads, started, emitted, doneq>>
    /\ UNCHANGED <<calc, mw>>

\* line 61, first half: tmp.write_text opens (truncates) data/current.tmp
WsOpen ==
    /\ At("ws_open")
    /\ \/ /\ current_tmp' = PartialFile
          /\ r' = [r EXCEPT !.pc = "ws_write"]
       \/ /\ r' = Raise(r)
          /\ UNCHANGED current_tmp
    /\ UNCHANGED <<current_json, versions, bak, staging_root, staging,
                   downloads_tmp, zip, part, gui, threads, started, emitted, doneq>>
    /\ UNCHANGED <<calc, mw>>

\* line 61, second half: the text is written out
WsWrite ==
    /\ At("ws_write")
    /\ \/ /\ current_tmp' = StateJson(new_state)
          /\ r' = [r EXCEPT !.pc = "ws_replace"]
       \/ /\ r' = Raise(r)
          /\ UNCHANGED current_tmp
    /\ UNCHANGED <<current_json, versions, bak, staging_root, staging,
                   downloads_tmp, zip, part, gui, threads, started, emitted, doneq>>
    /\ UNCHANGED <<calc, mw>>

\* line 62: tmp.replace(current_json_path); then _run_impl lines 195-196
WsReplace ==
    /\ At("ws_replace")
    /\ \/ /\ current_json' = current_tmp
          /\ current_tmp' = NoFile
          /\ r' = [Emitted(r, 98) EXCEPT !.pc = "cl_zip", !.stages = Append(@, "persist")]
       \/ /\ r' = Raise(r)
          /\ UNCHANGED <<current_json, current_tmp>>
    /\ UNCHANGED <<versions, bak, staging_root, staging,
                   downloads_tmp, zip, part, gui, threads, started, emitted, doneq>>
    /\ UNCHANGED <<calc, mw>>

(* ---- launcher/core/installer.py: cleanup_paths ---- *)

\* _run_impl line 197: cleanup_paths(zip_path); an unlink error is swallowed
ClZip ==
    /\ At("cl_zip")
    /\ \/ /\ zip' = [zip EXCEPT ![ZipKey] = "absent"]
          /\ r' = [r EXCEPT !.pc = "cl_downloads"]
       \/ /\ zip[ZipKey] # "absent"
          /\ r' = [Ignored(r) EXCEPT !.pc = "cl_downloads"]
          /\ UNCHANGED zip
    /\ UNCHANGED <<current_json, current_tmp, versions, bak, staging_root, staging,
                   downloads_tmp, part, gui, threads, started, emitted, doneq>>
    /\ UNCHANGED <<calc, mw>>

\* line 198: cleanup_paths(downloads_tmp): rmtree with ignore_errors=True
ClDownloads ==
    /\ At("cl_downloads")
    /\ \/ /\ downloads_tmp' = FALSE
          /\ zip' = [v \in ValidVersions |-> "absent"]
          /\ part' = [v \in ValidVersions |-> "absent"]
          /\ r' = [r EXCEPT !.pc = "cl_staging"]
       \/ /\ downloads_tmp
          /\ r' = [Ignored(r) EXCEPT !.pc = "cl_staging"]
          /\ UNCHANGED <<downloads_tmp, zip, part>>
    /\ UNCHANGED <<current_json, current_tmp, versions, bak, staging_root, staging,
                   gui, threads, started, emitted, doneq>>
    /\ UNCHANGED <<calc, mw>>

\* Variant of lines 199-208 in which a _staging tree that could not be
\* removed fails the run
ClStaging_strict ==
    /\ At("cl_staging")
    /\ \E left \in BOOLEAN :
         /\ IF left
            THEN staging_root /\ UNCHANGED <<staging_root, staging>>
            ELSE /\ staging_root' = FALSE
                 /\ staging' = [d \in DirNames |-> Absent]
         /\ LET exe2 == find_exe("versions", DirName, versions[DirName])
                run  == [Emitted(IF left THEN Ignored(r) ELSE r, 100) EXCEPT
                           !.stages = Append(@, "cleanup")]
            IN  r' = IF ~exe2.some \/ left
                     THEN Return(run, Failed("cleanup failed", r.exe_local))
                     ELSE Return(run, Ok("ok(installed)", exe2))
    /\ UNCHANGED <<current_json, current_tmp, versions, bak, downloads_tmp, zip,
                   part, gui, threads, started, emitted, doneq>>
    /\ UNCHANGED <<calc, mw>>

\* lines 199-208: cleanup_paths(versions/_staging), _progress(100), and the
\* executable of the promoted directory
ClStaging ==
    /\ At("cl_staging")
    /\ \E left \in BOOLEAN :
         /\ IF left
            THEN staging_root /\ UNCHANGED <<staging_root, staging>>
            ELSE /\ staging_root' = FALSE
                 /\ staging' = [d \in DirNames |-> Absent]
         /\ LET exe2 == find_exe("versions", DirName, versions[DirName])
                run  == [Emitted(IF left THEN Ignored(r) ELSE r, 100) EXCEPT
                           !.stages = Append(@, "cleanup")]
            IN  r' = IF ~exe2.some
                     THEN Return(run, Failed("installed but exe not found", r.exe_local))
                     ELSE Return(run, Ok("ok(installed)", exe2))
    /\ UNCHANGED <<current_json, current_tmp, versions, bak, downloads_tmp, zip,
                   part, gui, threads, started, emitted, doneq>>
    /\ UNCHANGED <<calc, mw>>

(* ---- UpdateWorker.run, line 69, and the end of the thread ---- *)

\* self.sig_done.emit(result): queued to the UI thread
EmitDone ==
    /\ At("emit")
    /\ emitted' = [emitted EXCEPT ![worker] = @ + 1]
    /\ doneq' = Append(doneq, r.result)
    /\ r' = [r EXCEPT !.pc = "exit"]
    /\ UNCHANGED <<fs, gui, threads, started>>
    /\ UNCHANGED <<calc, mw>>

\* run() returns: the thread is no longer running
ThreadExit ==
    /\ At("exit")
    /\ threads' = [threads EXCEPT ![worker] = "finished"]
    /\ r' = IdleRun
    /\ UNCHANGED <<fs, gui, started, emitted, doneq>>
    /\ UNCHANGED <<calc, mw>>

(* ------------------------------------------------------------------ *)
(* launcher/ui/launcher_window.py: LauncherWindow                       *)
(* A handler is one action; on_worker_done is cut where its modal       *)
(* question box waits for the user's answer.                            *)
(* ------------------------------------------------------------------ *)

Busy == UiState(TRUE, FALSE, FALSE)

\* Variant of the guard of start_worker that never finds a thread running
NoWorkerRunning == FALSE

\* The guard of start_worker, lines 383-384
WorkerIsRunning == worker # 0 /\ isRunning(worker)

\* start_worker(auto_update), called with the window fields u the calling
\* handler has reached
start_worker(auto_update, u) ==
    IF WorkerIsRunning
    THEN /\ ui' = u
         /\ UNCHANGED <<worker, threads, started, emitted, r>>
    ELSE /\ started < MaxRuns
         /\ started' = started + 1
         /\ ui' = [u EXCEPT !.buttons = Busy]
         /\ threads' = Append(threads, "running")
         /\ emitted' = Append(emitted, 0)
         /\ worker' = Len(threads) + 1
         /\ r' = [IdleRun EXCEPT !.pc = "start", !.auto_update = auto_update,
                                 !.json0 = current_json, !.left0 = Leftovers]

\* Variant of start_notice_then_update that starts the notice thread without
\* reading data/current.json first
start_notice_unread(u) ==
    /\ ui' = [u EXCEPT !.buttons = Busy]
    /\ nthread' = "running"
    /\ UNCHANGED <<worker, threads, started, emitted, r>>

\* start_notice_then_update, lines 317-341
start_notice_then_update(u) ==
    IF ~read_current_state(current_json).ok
    THEN /\ start_worker(FALSE, u)
         /\ UNCHANGED nthread
    ELSE /\ ui' = [u EXCEPT !.buttons = Busy]
         /\ nthread' = "running"
         /\ UNCHANGED <<worker, threads, started, emitted, r>>

\* launcher_main.main: the process starts and shows the window
Launch ==
    /\ win = "down"
    /\ started < MaxRuns
    /\ win' = "open"
    /\ ui' = NewWindow
    /\ UNCHANGED <<fs, worker, threads, started, emitted, doneq, nthread, noticeq, r,
                   launched>>
    /\ UNCHANGED <<calc, mw>>

\* QTimer.singleShot(0, self.start_notice_then_update), line 164
StartupTimer ==
    /\ win = "open"
    /\ ui.timer = "startup"
    /\ start_notice_then_update([ui EXCEPT !.timer = "none"])
    /\ UNCHANGED <<fs, win, doneq, noticeq, launched>>
    /\ UNCHANGED <<calc, mw>>

\* NoticeWorker.run (workers/notice_worker.py): one emission, then the end
NoticeRun ==
    /\ win = "open"
    /\ nthread = "running"
    /\ \E a \in NoticeAnswers :
         LET res == fetch_latest_notice(a)
         IN  noticeq' = Append(noticeq,
                 IF res.raised THEN [ok |-> FALSE, has |-> FALSE, notice |-> NoNotice]
                 ELSE [ok |-> res.ok, has |-> res.has, notice |-> res.info])
    /\ nthread' = "finished"
    /\ UNCHANGED <<fs, win, ui, worker, threads, started, emitted, doneq, r, launched>>
    /\ UNCHANGED <<calc, mw>>

\* on_notice_done, lines 343-379. For a notice that is not modal, line 360
\* reads self.paths.notice_ack_json, which LauncherPaths (core/paths.py) does
\* not have: the AttributeError ends the slot before start_worker.
OnNoticeDone ==
    /\ win = "open"
    /\ noticeq # <<>>
    /\ ui.dialog = "none"
    /\ noticeq' = Tail(noticeq)
    /\ LET result   == Head(noticeq)
           is_modal == result.notice.force \/ result.notice.level = CRITICAL
       IN  IF ~result.ok \/ ~result.has
           THEN start_worker(FALSE, ui)
           ELSE IF ~is_modal
           THEN /\ ui' = [ui EXCEPT !.has_notice = TRUE]
                /\ UNCHANGED <<worker, threads, started, emitted, r>>
           ELSE start_worker(FALSE, [ui EXCEPT !.has_notice = TRUE])
    /\ UNCHANGED <<fs, win, doneq, nthread, launched>>
    /\ UNCHANGED <<calc, mw>>

\* on_worker_done, lines 421-432 and 466-491: up to the question box, or to
\* the end when there is none
OnWorkerDone ==
    /\ win = "open"
    /\ doneq # <<>>
    /\ ui.dialog = "none"
    /\ doneq' = Tail(doneq)
    /\ LET result == Head(doneq)
           u      == [ui EXCEPT !.last_result = result, !.has_result = TRUE]
       IN  ui' = IF result.ok /\ result.update_available
                 THEN [u EXCEPT !.dialog = "question"]
                 ELSE IF result.ok
                 THEN [u EXCEPT !.buttons = UiState(FALSE, result.exe_path.some, FALSE)]
                 ELSE [u EXCEPT !.buttons = UiState(FALSE, FALSE, TRUE)]
    /\ UNCHANGED <<fs, win, worker, threads, started, emitted, nthread, noticeq, r,
                   launched>>
    /\ UNCHANGED <<calc, mw>>

\* Variant in which declining the update enables Run without looking at exe_path
AnswerQuestion_runnable ==
    /\ win = "open"
    /\ ui.dialog = "question"
    /\ LET u == [ui EXCEPT !.dialog = "none"]
       IN  \/ start_worker(TRUE, u)
           \/ /\ ui' = [u EXCEPT !.buttons = UiState(FALSE, TRUE, FALSE)]
              /\ UNCHANGED <<worker, threads, started, emitted, r>>
    /\ UNCHANGED <<fs, win, doneq, nthread, noticeq, launched>>
    /\ UNCHANGED <<calc, mw>>

\* on_worker_done, lines 434-464: the user answers the question box
AnswerQuestion ==
    /\ win = "open"
    /\ ui.dialog = "question"
    /\ LET u == [ui EXCEPT !.dialog = "none"]
       IN  \/ start_worker(TRUE, u)
           \/ /\ ui' = IF ~ui.last_result.exe_path.some
                       THEN [u EXCEPT !.buttons = UiState(FALSE, FALSE, TRUE)]
                       ELSE [u EXCEPT !.buttons = UiState(FALSE, TRUE, FALSE)]
              /\ UNCHANGED <<worker, threads, started, emitted, r>>
    /\ UNCHANGED <<fs, win, doneq, nthread, noticeq, launched>>
    /\ UNCHANGED <<calc, mw>>

\* on_retry, lines 262-270
OnRetry ==
    /\ win = "open"
    /\ ui.buttons.btn_retry
    /\ ui.dialog = "none"
    /\ start_notice_then_update([ui EXCEPT !.last_result = NoResult,
                                          !.has_result = FALSE,
                                          !.has_notice = FALSE])
    /\ UNCHANGED <<fs, win, doneq, noticeq, launched>>
    /\ UNCHANGED <<calc, mw>>

\* run_exe(exe_path) (core/runner.py): the path must exist; Popen may fail
run_exe_ok(p) ==
    /\ p.root = "versions"
    /\ p.dir \in DirNames
    /\ find_exe("versions", p.dir, versions[p.dir]).some

\* on_run, lines 272-286
OnRun ==
    /\ win = "open"
    /\ ui.buttons.btn_run
    /\ ui.dialog = "none"
    /\ IF ~ui.has_result \/ ~ui.last_result.exe_path.some
          \/ ~run_exe_ok(ui.last_result.exe_path)
       THEN UNCHANGED <<ui, launched>>
       ELSE \/ /\ launched' = launched \cup
                     {find_exe("versions", ui.last_result.exe_path.dir,
                               versions[ui.last_result.exe_path.dir])}
               /\ ui' = [ui EXCEPT !.timer = "close"]
            \/ UNCHANGED <<ui, launched>>
    /\ UNCHANGED <<fs, win, worker, threads, started, emitted, doneq, nthread,
                   noticeq, r>>
    /\ UNCHANGED <<calc, mw>>

\* The process is gone: its threads, queues and window with it
ProcessGone ==
    /\ win' = "down"
    /\ ui' = NewWindow
    /\ worker' = 0
    /\ threads' = <<>>
    /\ emitted' = <<>>
    /\ doneq' = <<>>
    /\ nthread' = "none"
    /\ noticeq' = <<>>
    /\ r' = IdleRun

\* Variant of closeEvent that accepts every close request
CloseEvent_accept ==
    /\ win = "open"
    /\ ui.dialog = "none"
    /\ ProcessGone
    /\ UNCHANGED <<fs, started, launched>>
    /\ UNCHANGED <<calc, mw>>

\* closeEvent, lines 288-294: from the close button, the title bar or the
\* timer of on_run; refused while the update worker runs
CloseEvent ==
    /\ win = "open"
    /\ ui.dialog = "none"
    /\ IF WorkerIsRunning
       THEN /\ ui' = [ui EXCEPT !.timer = IF @ = "close" THEN "none" ELSE @]
            /\ UNCHANGED <<win, worker, threads, emitted, doneq, nthread, noticeq, r>>
       ELSE ProcessGone
    /\ UNCHANGED <<fs, started, launched>>
    /\ UNCHANGED <<calc, mw>>

\* The process crashes or is terminated by force, at any point
Kill ==
    /\ win = "open"
    /\ ProcessGone
    /\ UNCHANGED <<fs, started, launched>>
    /\ UNCHANGED <<calc, mw>>

(* ------------------------------------------------------------------ *)
(* The launcher as a whole                                              *)
(* ------------------------------------------------------------------ *)

WorkerStep ==
    \/ ReadState \/ FetchLatest \/ Compare \/ Probe
    \/ DlMkdir \/ DlGet \/ DlOpen \/ DlChunk \/ DlUnlink \/ DlRename \/ DlExcept
    \/ UzRmtree \/ UzMkdir \/ UzExtract \/ FindExe
    \/ PrRmBak \/ PrToBak \/ PrRename \/ PrRmBak2
    \/ WsOpen \/ WsWrite \/ WsReplace
    \/ ClZip \/ ClDownloads \/ ClStaging
    \/ EmitDone \/ ThreadExit

WindowStep ==
    \/ Launch \/ StartupTimer \/ NoticeRun \/ OnNoticeDone \/ OnWorkerDone
    \/ AnswerQuestion \/ OnRetry \/ OnRun \/ CloseEvent

Next == WorkerStep \/ WindowStep \/ Kill

Spec == Init /\ [][Next]_vars

(* ------------------------------------------------------------------ *)
(* The orchestrator driven directly: any caller may construct an        *)
(* UpdateWorker with either auto_update and start it when no run is in  *)
(* flight; the process may die at any point and be started again.       *)
(* ------------------------------------------------------------------ *)

\* launcher_main.main up to the window: the process is up; n bounds the runs
BootUpTo(n) ==
    /\ win = "down"
    /\ started < n
    /\ win' = "open"
    /\ UNCHANGED <<fs, ui, worker, threads, started, emitted, doneq, nthread,
                   noticeq, r, launched>>
    /\ UNCHANGED <<calc, mw>>

\* UpdateWorker(paths, auto_update).start(), update_worker.py lines 50-53;
\* the caller has taken the result of the run before
StartRunUpTo(n) ==
    /\ win = "open"
    /\ ~WorkerIsRunning
    /\ started < n
    /\ \E auto_update \in BOOLEAN :
         r' = [IdleRun EXCEPT !.pc = "start", !.auto_update = auto_update,
                              !.json0 = current_json, !.left0 = Leftovers]
    /\ started' = started + 1
    /\ threads' = <<"running">>
    /\ emitted' = <<0>>
    /\ worker' = 1
    /\ doneq' = <<>>
    /\ UNCHANGED <<fs, win, ui, nthread, noticeq, launched>>
    /\ UNCHANGED <<calc, mw>>

Boot == BootUpTo(MaxUpdates)

StartRun == StartRunUpTo(MaxUpdates)

NextUpdate == WorkerStep \/ Boot \/ StartRun \/ Kill

SpecUpdate == Init /\ [][NextUpdate]_vars

\* The same started on an installation with leftovers
BootStale == BootUpTo(MaxStaleRuns)

StartRunStale == StartRunUpTo(MaxStaleRuns)

NextStale == WorkerStep \/ BootStale \/ StartRunStale \/ Kill

SpecStale == InitStale /\ [][NextStale]_vars

(* ------------------------------------------------------------------ *)
(* The functions of launcher/core called on their own                   *)
(* ------------------------------------------------------------------ *)

\* The integers the version components are drawn from
Components == {0, 1, 9, 10}

\* str(n) of a natural number
RECURSIVE DecStr(_)
DecStr(n) ==
    IF n < 10 THEN <<DigitChars[n + 1]>>
    ELSE DecStr(n \div 10) \o <<DigitChars[(n % 10) + 1]>>

\* The optional leading "v" / "V" of a version
Prefixes == {<<>>, <<"v">>, <<"V">>}

\* "x.y.z" with its optional prefix
VersionStr(p, t) ==
    p \o DecStr(t[1]) \o <<".">> \o DecStr(t[2]) \o <<".">> \o DecStr(t[3])

\* compare_versions(local_v, server_v) on two well-formed versions
CallCompareVersions ==
    /\ calc = NoCall
    /\ \E p \in Prefixes, q \in Prefixes,
          l \in Components \X Components \X Components,
          s \in Components \X Components \X Components :
         LET local_v  == VersionStr(p, l)
             server_v == VersionStr(q, s)
         IN  calc' = [op |-> "compare_versions",
                      local_v |-> local_v, server_v |-> server_v,
                      l |-> l, s |-> s,
                      ret |-> compare_versions(local_v, server_v)]
    /\ UNCHANGED <<fs, gui, threads, started, emitted, doneq, r, mw>>

\* What the "level" member of a notice may be: absent or null, a number,
\* a blank string, a known level in either case, any other string
NoticeLevels ==
    {JNull, JNum, JStr(<<" ">>), JStr(CRITICAL), JStr(IMPORTANT),
     JStr(<<" ", "i", "n", "f", "o">>), JStr(<<"d", "e", "b", "u", "g">>)}

\* fetch_latest_notice(server_base_url, program_id) on an answer of the server
CallFetchLatestNotice ==
    /\ calc = NoCall
    /\ \E a \in NoticeAnswers \cup
                {NoticeAnswer(TRUE, 200, "object", wrap, JStr(<<"n">>), level, force) :
                   wrap \in {"falsy", "obj"}, level \in NoticeLevels,
                   force \in BOOLEAN} :
         calc' = [op |-> "fetch_latest_notice", answer |-> a,
                  ret |-> fetch_latest_notice(a)]
    /\ UNCHANGED <<fs, gui, threads, started, emitted, doneq, r, mw>>

\* Non-empty strings a field of CurrentState may hold: plain, padded, blank
Padded(s) == {s, <<" ">> \o s, s \o <<" ">>, <<" ">>}

\* write_current_state(path, st), which succeeds, then read_current_state(path)
CallWriteThenRead ==
    /\ calc = NoCall
    /\ \E program_id \in Padded(PID), version \in Padded(V101),
          server_url \in Padded(URL) :
         \E st \in {CurrentState(program_id, version, server_url)} :
           /\ current_json' = StateJson(st)
           /\ calc' = [op |-> "write_then_read", st |-> st,
                        ret |-> read_current_state(StateJson(st))]
    /\ current_tmp' = NoFile
    /\ UNCHANGED <<versions, bak, staging_root, staging, downloads_tmp, zip, part,
                   gui, threads, started, emitted, doneq, r, mw>>

NextCalls ==
    \/ CallCompareVersions
    \/ CallFetchLatestNotice
    \/ CallWriteThenRead

\* The intact installation of 1.0.0, nothing running
InitIntact ==
    /\ InitLauncher
    /\ current_json = StateJson(CurrentState(PID, V100, URL))
    /\ versions[version_to_dirname(V100).name].e

InitCalls ==
    /\ InitIntact
    /\ calc = NoCall
    /\ mw = NoMainWindow

SpecCalls == InitCalls /\ [][NextCalls]_vars

(* ------------------------------------------------------------------ *)
(* src/ui/main_window.py: the close sequence of the launched program    *)
(* ------------------------------------------------------------------ *)

\* The background workers MainWindow holds a reference to
WorkerNames == {"api_worker", "on_demand_worker", "progress_worker"}

\* MainWindow.__init__ (lines 150-155) with the workers ws running
MainWindow(ws) ==
    [app |-> "running",        \* QApplication: "running" until quit()
     shown |-> TRUE,           \* the window is open
     _closing |-> FALSE,
     _force_close |-> FALSE,
     _closing_pop |-> "none",  \* ClosingPop: "none", "shown", "done"
     refs |-> ws,              \* the worker fields that are not None
     running |-> ws,           \* the workers that have not been stopped
     timeout_timers |-> 0,     \* pending singleShot(_close_timeout_ms, _force_quit)
     done_timers |-> 0,        \* pending singleShot(2000, _force_quit)
     cleanup_workers |-> 0,    \* CleanupWorker threads started
     cw |-> "none",            \* where CleanupWorker.run stands
     cw_refs |-> {},           \* the workers handed to CleanupWorker.__init__
     ok |-> TRUE,              \* CleanupWorker.run's ok
     done_events |-> 0,        \* queued CleanupWorker.done signals
     force_quits |-> 0]        \* executions of the body of _force_quit

Launcher == <<fs, gui, threads, started, emitted, doneq, r>>

\* _force_quit, lines 808-837: close() re-enters closeEvent, which accepts
_force_quit(m) ==
    IF m._force_close THEN m
    ELSE [m EXCEPT !._force_close = TRUE, !._closing_pop = "none",
                   !.shown = FALSE, !.app = "quit", !.force_quits = @ + 1]

\* Variant of closeEvent without the _closing check
closeEvent_restart ==
    /\ mw.app = "running"
    /\ mw.shown
    /\ mw' = IF mw._force_close THEN [mw EXCEPT !.shown = FALSE]
             ELSE [mw EXCEPT !._closing = TRUE, !._closing_pop = "shown",
                             !.timeout_timers = @ + 1,
                             !.cleanup_workers = @ + 1,
                             !.cw = "on_demand", !.cw_refs = mw.refs, !.ok = TRUE]
    /\ UNCHANGED <<Launcher, calc>>

\* closeEvent, lines 761-790: a close request of the user or of close()
closeEvent ==
    /\ mw.app = "running"
    /\ mw.shown
    /\ mw' = IF mw._force_close THEN [mw EXCEPT !.shown = FALSE]
             ELSE IF mw._closing THEN mw
             ELSE [mw EXCEPT !._closing = TRUE, !._closing_pop = "shown",
                             !.timeout_timers = @ + 1,
                             !.cleanup_workers = @ + 1,
                             !.cw = "on_demand", !.cw_refs = mw.refs, !.ok = TRUE]
    /\ UNCHANGED <<Launcher, calc>>

\* One guarded stop call of CleanupWorker.run: it returns, raises (caught,
\* ok = False) or does not return
Stop(m, w, next) ==
    IF w \notin m.cw_refs THEN {[m EXCEPT !.cw = next]}
    ELSE {[m EXCEPT !.cw = next, !.running = @ \ {w}],
          [m EXCEPT !.cw = next, !.ok = FALSE],
          [m EXCEPT !.cw = "blocked"]}

\* cleanup_worker.py lines 32-38: on_demand_worker.stop()
CwOnDemand ==
    /\ mw.app = "running"
    /\ mw.cw = "on_demand"
    /\ mw' \in Stop(mw, "on_demand_worker", "progress")
    /\ UNCHANGED <<Launcher, calc>>

\* lines 40-46: progress_worker.stop()
CwProgress ==
    /\ mw.app = "running"
    /\ mw.cw = "progress"
    /\ mw' \in Stop(mw, "progress_worker", "api")
    /\ UNCHANGED <<Launcher, calc>>

\* lines 48-59: api_worker.stop() and wait
CwApi ==
    /\ mw.app = "running"
    /\ mw.cw = "api"
    /\ mw' \in Stop(mw, "api_worker", "session")
    /\ UNCHANGED <<Launcher, calc>>

\* lines 61-81: the session is cleared and closed, or an error is recorded
CwSession ==
    /\ mw.app = "running"
    /\ mw.cw = "session"
    /\ \E ok \in BOOLEAN : mw' = [mw EXCEPT !.cw = "emit", !.ok = @ /\ ok]
    /\ UNCHANGED <<Launcher, calc>>

\* lines 88-95: done.emit(ok, msg), queued to the UI thread
CwEmit ==
    /\ mw.app = "running"
    /\ mw.cw = "emit"
    /\ mw' = [mw EXCEPT !.cw = "finished", !.done_events = @ + 1]
    /\ UNCHANGED <<Launcher, calc>>

\* _on_cleanup_done, lines 792-806
_on_cleanup_done ==
    /\ mw.app = "running"
    /\ mw.done_events > 0
    /\ mw' = [mw EXCEPT !.done_events = @ - 1, !.refs = {},
                        !._closing_pop = IF @ = "none" THEN @ ELSE "done",
                        !.done_timers = @ + 1]
    /\ UNCHANGED <<Launcher, calc>>

\* The timer of line 780 fires
TimeoutFires ==
    /\ mw.app = "running"
    /\ mw.timeout_timers > 0
    /\ mw' = _force_quit([mw EXCEPT !.timeout_timers = @ - 1])
    /\ UNCHANGED <<Launcher, calc>>

\* A timer of line 804 fires
DoneTimerFires ==
    /\ mw.app = "running"
    /\ mw.done_timers > 0
    /\ mw' = _force_quit([mw EXCEPT !.done_timers = @ - 1])
    /\ UNCHANGED <<Launcher, calc>>

NextClose ==
    \/ closeEvent
    \/ CwOnDemand \/ CwProgress \/ CwApi \/ CwSession \/ CwEmit
    \/ _on_cleanup_done \/ TimeoutFires \/ DoneTimerFires

\* The main window is open with any of its workers running
InitClose ==
    /\ InitIntact
    /\ calc = NoCall
    /\ \E ws \in SUBSET WorkerNames : mw = MainWindow(ws)

SpecClose == InitClose /\ [][NextClose]_vars

\* The event loop runs: a timer that is due fires
SpecCloseLive == SpecClose /\ WF_vars(TimeoutFires)
(* ------------------------------------------------------------------ *)
(* Properties                                                           *)
(* ------------------------------------------------------------------ *)

\* A version directory holds the executable
HasExe(d) == d.e /\ \E x \in d.f : x.name = EXE

\* data/current.json is readable and the directory of the version it records
\* exists with its executable
Installed ==
    \E rd \in {read_current_state(current_json)} :
      /\ rd.ok
      /\ \E d \in {version_to_dirname(rd.st.version).name} :
           d \in DirNames /\ HasExe(versions[d])

\* The thread of self.worker is inside run()
InRun == win = "open" /\ worker # 0 /\ isRunning(worker) /\ r.pc # "idle"

\* C1: if data/current.json named an existing version directory with its
\* executable before a step, it does so after the step, for every step of a run
\* and for the death of the process after any step.
C1_CurrentVersionSurvives ==
    [][Installed => Installed']_vars

\* C1 witness: the process died after promote_staging and before
\* write_current_state; current.json still names 1.0.0, whose directory is whole
C1_Witness ==
    /\ win = "down"
    /\ versions[version_to_dirname(V101).name].e
    /\ current_json = StateJson(CurrentState(PID, V100, URL))
    /\ Installed

AllStages == <<"download", "unpack", "exe", "promote">>

\* C2: write_current_state is entered, and data/current.json replaced, only
\* with download, unpack, executable search and promote done in that order;
\* a run that returns without having persisted leaves current.json as it was
\* when the run started.
C2_WriteOnlyAfterInstall ==
    [][/\ (r'.pc = "ws_open" /\ r.pc # "ws_open") => r'.stages = AllStages
       /\ current_tmp' # current_tmp => r.stages = AllStages
       /\ current_json' # current_json => r.pc = "ws_replace" /\ r.stages = AllStages
       /\ (r'.pc = "emit" /\ \A i \in 1..Len(r'.stages) : r'.stages[i] # "persist")
            => current_json' = r'.json0]_vars

\* C2 witness: a run failed in promote_staging and returned
C2_Witness ==
    /\ r.pc = "emit"
    /\ r.result.message = "promote failed"
    /\ r.stages = <<"download", "unpack", "exe">>
    /\ current_json = r.json0

\* C3: a run that went through every stage with no error, ignored ones
\* included, has left current.json with the remote version and the program_id
\* and server_url it had, the promoted directory in place, downloads_tmp and
\* versions/_staging gone, and returns the executable of the promoted directory.
C3_InstalledState ==
    (r.pc = "emit" /\ r.stages = AllStages \o <<"persist", "cleanup">> /\ ~r.ignored)
    => LET d == version_to_dirname(r.latest.latest_version).name
       IN  /\ current_json.kind = "json"
           /\ current_json.version = JStr(r.latest.latest_version)
           /\ current_json.program_id = r.json0.program_id
           /\ current_json.server_url = r.json0.server_url
           /\ compare_versions(r.json0.version.s, r.latest.latest_version).cmp = -1
           /\ versions[d].e
           /\ ~downloads_tmp
           /\ \A v \in ValidVersions : zip[v] = "absent" /\ part[v] = "absent"
           /\ ~staging_root
           /\ \A x \in DirNames : ~staging[x].e
           /\ r.result.ok
           /\ r.result.exe_path.some
           /\ r.result.exe_path.root = "versions"
           /\ r.result.exe_path.dir = d
           /\ HasExe(versions[d])

C3_Witness ==
    /\ r.pc = "emit"
    /\ r.result.message = "ok(installed)"
    /\ ~r.ignored
    /\ current_json.version = JStr(V101)

\* C4: a run with auto_update = False changes nothing below base_dir and
\* never reaches the probe or the download; when the local version is older
\* than the remote one it returns ok, update_available, the remote version and
\* the remote asset URL.
C4_CheckOnly ==
    [][(InRun /\ ~r.auto_update)
         => /\ UNCHANGED fs
            /\ r'.pc \in {"fetch", "compare", "emit", "exit", "idle"}
            /\ (r.pc = "compare"
                  /\ compare_versions(r.st.version, r.latest.latest_version).ok
                  /\ compare_versions(r.st.version, r.latest.latest_version).cmp = -1
                  /\ r'.pc # "idle")
                 => /\ r'.pc = "emit"
                    /\ r'.result.ok
                    /\ r'.result.update_available
                    /\ r'.result.latest_version = r.latest.latest_version
                    /\ r'.result.asset_url = r.latest.asset_url]_vars

C4_Witness ==
    /\ r.pc = "emit"
    /\ ~r.auto_update
    /\ r.result.update_available
    /\ r.result.latest_version = V101
    /\ r.result.asset_url = Some(ASSET_URL)

\* The run stands after compare_versions, which found the local version equal
\* to or newer than the remote one
NotOlder(run) ==
    /\ compare_versions(run.st.version, run.latest.latest_version).ok
    /\ compare_versions(run.st.version, run.latest.latest_version).cmp >= 0

\* C5 as stated: with the local version equal to or newer than the remote one
\* the run reports success with the executable under versions/<local>.
C5_Original ==
    (r.pc = "emit" /\ r.latest # NoLatest /\ NotOlder(r))
    => /\ r.result.ok
       /\ ~r.result.update_available
       /\ r.result.exe_path.some
       /\ r.result.exe_path.dir = version_to_dirname(r.st.version).name

\* C5 as amended: with the local version equal to or newer than the remote one
\* the run changes nothing below base_dir, whatever auto_update is; it reports
\* success, no update and the executable under versions/<local> when that
\* executable exists, and failure without an executable path when it does not.
C5_UpToDate ==
    [][(InRun /\ r.pc = "compare" /\ NotOlder(r) /\ r'.pc # "idle")
         => LET d == version_to_dirname(r.st.version).name
            IN  /\ UNCHANGED fs
                /\ r.stages = <<>>
                /\ r'.pc = "emit"
                /\ ~r'.result.update_available
                /\ IF HasExe(versions[d])
                   THEN /\ r'.result.ok
                        /\ r'.result.exe_path.some
                        /\ r'.result.exe_path.root = "versions"
                        /\ r'.result.exe_path.dir = d
                   ELSE /\ ~r'.result.ok
                        /\ ~r'.result.exe_path.some]_vars

\* C5 witness: an auto_update run found the server older than the installed
\* 1.0.1 and returned its executable
C5_Witness ==
    /\ r.pc = "emit"
    /\ r.auto_update
    /\ r.st.version = V101
    /\ r.latest.latest_version = V100
    /\ r.result.ok
    /\ r.result.exe_path.dir = version_to_dirname(V101).name

\* C6: the version in data/current.json never decreases in the order of
\* parse_semver's triples, over all runs, answers and failures.
C6_NeverDowngrade ==
    [][\A a \in {read_current_state(current_json)} :
       \A b \in {read_current_state(current_json')} :
         (a.ok /\ b.ok /\ parse_semver(a.st.version).ok)
           => /\ parse_semver(b.st.version).ok
              /\ ~TupleLess(parse_semver(b.st.version).t,
                            parse_semver(a.st.version).t)]_vars

\* C6 witness: with 1.0.1 installed the server answered an older version and
\* the run ended with 1.0.1 still recorded
C6_Witness ==
    /\ r.pc = "emit"
    /\ r.st.version = V101
    /\ r.latest.latest_version = V090
    /\ current_json.version = JStr(V101)

\* The executable of the version current.json named when the run started
PreviousExe ==
    LET rd == read_current_state(r.json0)
        d  == version_to_dirname(rd.st.version).name
    IN  IF rd.ok /\ d \in DirNames
        THEN find_exe("versions", d, versions[d]) ELSE NoPath

\* C7 as stated: every failed run returns the executable of the previously
\* installed version when that executable exists.
C7_Original ==
    (r.pc = "emit" /\ ~r.result.ok /\ PreviousExe.some)
    => r.result.exe_path = PreviousExe

\* C8: a run emits sig_done at most once, and a thread that has left run()
\* has emitted it exactly once.
C8_DoneExactlyOnce ==
    \A w \in 1..Len(threads) :
        /\ emitted[w] <= 1
        /\ threads[w] = "finished" => emitted[w] = 1
        /\ (w = worker /\ r.pc = "exit") => emitted[w] = 1
        /\ (w = worker /\ r.pc \notin {"exit", "idle"}) => emitted[w] = 0

\* C8 witness: a run whose _run_impl raised has emitted and ended
C8_Witness ==
    /\ worker # 0
    /\ threads[worker] = "finished"
    /\ doneq # <<>>
    /\ doneq[Len(doneq)].message = "unexpected error"

NonDecreasing(s) == \A i, j \in 1..Len(s) : i < j => s[i] <= s[j]

\* C9 as stated: the percentages of one run never decrease, and those of the
\* download stay within 0..80.
C9_Original ==
    /\ NonDecreasing(r.progress)
    /\ r.pc \in {"dl_get", "dl_open", "dl_chunk", "dl_unlink", "dl_rename", "dl_except"}
         => \A i \in 1..Len(r.progress) : r.progress[i] <= 80

\* C10: at most one UpdateWorker thread is running.
C10_OneWorker ==
    Cardinality({w \in 1..Len(threads) : threads[w] = "running"}) <= 1

\* C10 witness: the user accepted the update while the thread of the check
\* run, which had emitted sig_done, was still running: start_worker returned
\* without starting a second thread
C10_Witness ==
    /\ Len(threads) = 1
    /\ threads[1] = "running"
    /\ r.pc = "exit"
    /\ ui.has_result
    /\ ui.last_result.update_available
    /\ ui.dialog = "none"
    /\ ~ui.buttons.btn_close


\* data/current.json is missing or malformed
Unreadable == ~read_current_state(current_json).ok

\* C11: while data/current.json is missing or malformed no notice thread
\* runs or has run, the update run stands before fetch_latest or after its
\* return without having fetched, probed or downloaded, and every result it
\* returns, queues or shows is a failure.
C11_NoNetworkWithoutState ==
    Unreadable
    => /\ nthread = "none"
       /\ noticeq = <<>>
       /\ r.pc \in {"idle", "start", "emit", "exit"}
       /\ r.latest = NoLatest
       /\ r.probe = "none"
       /\ r.total = 0 /\ r.bytes_written = 0
       /\ r.pc \in {"emit", "exit"} => ~r.result.ok
       /\ \A i \in 1..Len(doneq) : ~doneq[i].ok
       /\ ui.has_result => ~ui.last_result.ok

\* C11 witness: with current.json lacking server_url the window shows the
\* failure of the run and offers the retry
C11_Witness ==
    /\ current_json.kind = "json"
    /\ Unreadable
    /\ ui.has_result
    /\ ui.last_result.message = "unexpected error"
    /\ ui.buttons.btn_retry

\* promote_staging has just returned success
Promoted == r.pc = "ws_open"

C13_NoRestore ==
    (r.pc = "emit" /\ r.result.message = "promote failed" /\ r.aside)
    => /\ ~r.result.ok
       /\ ~versions[DirName].e
       /\ r.prev_target.e
       /\ bak[DirName] = r.prev_target
       /\ staging[DirName] = r.staged
       /\ r.staged.e

C13_Witness ==
    /\ r.pc = "emit"
    /\ r.result.message = "promote failed"
    /\ r.aside
    /\ ~versions[DirName].e
    /\ HasExe(bak[DirName])

\* The run went through every stage and no deletion error was ignored
Complete ==
    /\ r.pc = "emit"
    /\ r.stages = AllStages \o <<"persist", "cleanup">>
    /\ ~r.ignored

\* C14: a run that goes through every stage with no error ends in one and
\* the same directory tree and result, the one of a run started on the clean
\* installation of 1.0.0, whatever combination of leftovers (.part, zip,
\* _staging tree, __bak, target directory, current.tmp) it started with.
C14_LeftoversHarmless ==
    Complete
    => LET D == version_to_dirname(V101).name
       IN  /\ current_json = StateJson(CurrentState(PID, V101, URL))
           /\ current_tmp = NoFile
           /\ versions = [d \in DirNames |->
                            IF d = version_to_dirname(V100).name THEN OldInstall
                            ELSE IF d = D THEN Dir(ArchiveFiles("good"))
                            ELSE Absent]
           /\ bak = [d \in DirNames |-> Absent]
           /\ ~staging_root
           /\ staging = [d \in DirNames |-> Absent]
           /\ ~downloads_tmp
           /\ zip = [v \in ValidVersions |-> "absent"]
           /\ part = [v \in ValidVersions |-> "absent"]
           /\ r.result = Ok("ok(installed)", ExePath("versions", D, "new"))

\* C14 witness: such a run that started with all six leftovers
C14_Witness ==
    /\ Complete
    /\ r.left0 = LeftoverKinds

\* The same run on the clean installation
C14_CleanRun ==
    /\ Complete
    /\ r.left0 = {}

\* download_file has just returned failure
DownloadReturnedFailure == r.pc = "emit" /\ r.result.message = "download failed"

\* C15 as stated: when download_file returns failure a file that was at
\* dst_path before the call is still there as it was.
C15_Original ==
    (DownloadReturnedFailure /\ r.zip0 # "absent") => zip[ZipKey] = r.zip0

\* C16 as stated: when download_file returns failure there is no
\* dst_path + ".part", and no dst_path unless there was one before the call.
C16_Original ==
    DownloadReturnedFailure
    => /\ part[ZipKey] = "absent"
       /\ r.zip0 = "absent" => zip[ZipKey] = "absent"

\* C17: data/current.json changes in one step only, the replace of
\* write_current_state, from the complete previous record to the complete
\* new one; it is never partially written and never goes missing, at any
\* step of a run or at the death of the process after any step.
C17_AtomicStateWrite ==
    [][/\ current_json'.kind # "partial"
       /\ current_json.kind = "json" => current_json'.kind = "json"
       /\ current_json' # current_json
            => /\ r.pc = "ws_replace"
               /\ current_json' = StateJson(new_state)
               /\ \A rd \in {read_current_state(current_json')} :
                    rd.ok /\ rd.st = new_state]_vars

\* C17 witness: the process died inside write_current_state; current.tmp is
\* partially written and current.json is the complete previous record
C17_Witness ==
    /\ win = "down"
    /\ current_tmp.kind = "partial"
    /\ current_json = StateJson(CurrentState(PID, V100, URL))

\* unzip_to_staging has just returned success
Unzipped == r.pc = "find"

\* C18 as stated: after a successful unzip_to_staging staging_dir holds the
\* members of the archive and nothing else.
C18_Original ==
    Unzipped => staging[DirName] = Dir(ArchiveFiles(zip[ZipKey]))

\* The run has written data/current.json
Persisted == \E i \in 1..Len(r.stages) : r.stages[i] = "persist"

\* C19: a run that has promoted and written data/current.json goes through
\* the three cleanup_paths calls without an exception and returns the success
\* result with the executable of the promoted directory, whether the zip,
\* downloads_tmp and versions/_staging were removed or not.
C19_CleanupNeverFails ==
    /\ (Persisted /\ r.pc \notin {"emit", "exit"})
         => r.pc \in {"cl_zip", "cl_downloads", "cl_staging"}
    /\ (Persisted /\ r.pc = "emit")
         => /\ r.stages = AllStages \o <<"persist", "cleanup">>
            /\ r.result.ok
            /\ r.result.message = "ok(installed)"
            /\ ~r.result.update_available
            /\ \E x \in r.staged.f :
                 /\ x.name = EXE
                 /\ r.result.exe_path = ExePath("versions", DirName, x.data)

\* C19 witness: none of the three deletions succeeded and the run returned
\* success
C19_Witness ==
    /\ Persisted
    /\ r.pc = "emit"
    /\ r.result.ok
    /\ zip[ZipKey] # "absent"
    /\ downloads_tmp
    /\ staging_root

\* C20 as stated: where the update run calls fetch_latest and the notice
\* thread calls fetch_latest_notice, for every answer of the server they
\* return without raising, (true, ..., info) or
\* (false, message, none); an asset member that is no object gives a success
\* whose asset fields are None; so no run ends in the catch-all of run()
\* right after fetch_latest.
C20_Original ==
    /\ At("fetch") => \A a \in LatestAnswers :
         LET res == fetch_latest(a)
         IN  /\ ~res.raised
             /\ res.ok <=> res.info # NoLatest
             /\ (a.net /\ a.status = 200 /\ a.body = "object"
                   /\ NonBlankStr(a.program_id) /\ NonBlankStr(a.latest_version)
                   /\ a.asset.kind = "other")
                  => res.ok /\ ~res.info.asset_url.some /\ ~res.info.asset_sha256.some
    /\ (win = "open" /\ nthread = "running") => \A a \in NoticeAnswers :
         LET res == fetch_latest_notice(a)
         IN  ~res.raised /\ (res.has => res.ok)
    /\ ~(/\ r.pc = "emit"
         /\ r.st # NoState
         /\ r.latest = NoLatest
         /\ r.result.message = "unexpected error")

\* C21 as stated: when the window shows the failure of an update run whose
\* result carries the executable of the installed version, and that
\* executable is on disk, the Run button is enabled.
C21_Original ==
    (/\ win = "open"
     /\ ui.has_result
     /\ ~ui.last_result.ok
     /\ ui.last_result.exe_path.some
     /\ run_exe_ok(ui.last_result.exe_path)
     /\ ui.buttons.btn_close)
    => ui.buttons.btn_run

\* Lexicographic comparison of two integer triples: -1, 0 or 1
TripleCmp(a, b) ==
    IF a[1] # b[1] THEN (IF a[1] < b[1] THEN -1 ELSE 1)
    ELSE IF a[2] # b[2] THEN (IF a[2] < b[2] THEN -1 ELSE 1)
    ELSE IF a[3] # b[3] THEN (IF a[3] < b[3] THEN -1 ELSE 1)
    ELSE 0

\* C22: for well-formed versions compare_versions returns -1, 0 or 1 exactly
\* as the lexicographic comparison of the integer triples does, exchanging
\* the arguments negates the result, and a leading v or V changes nothing
C22_NumericOrder ==
    calc.op = "compare_versions" =>
        \A a \in {calc.local_v}, b \in {calc.server_v} :
            /\ calc.ret.ok
            /\ calc.ret.cmp = TripleCmp(calc.l, calc.s)
            /\ compare_versions(b, a) = [ok |-> TRUE, cmp |-> 0 - calc.ret.cmp]
            /\ compare_versions(VersionStr(<<>>, calc.l), VersionStr(<<>>, calc.s))
                   = calc.ret

\* 1.9.0 has been compared with V1.10.0 and found older
C22_Witness ==
    /\ calc.op = "compare_versions"
    /\ calc.local_v = <<"1", ".", "9", ".", "0">>
    /\ calc.server_v = <<"V", "1", ".", "1", "0", ".", "0">>
    /\ calc.ret = [ok |-> TRUE, cmp |-> -1]

\* C23: in an auto-update run the step after probe_url is the first line of
\* download_file whatever the probe returned, and no result has been built
\* while the outcome of a probe is pending
C23_ProbeDoesNotGate ==
    /\ [](r.probe # "none" => r.pc = "dl_mkdir" /\ r.result = NoResult)
    /\ [][(At("probe") /\ r'.probe # r.probe)
            => (r.auto_update /\ r'.pc = "dl_mkdir" /\ r'.result = NoResult)]_vars

\* probe_url returned False and download_file is about to be called
C23_Witness ==
    /\ At("dl_mkdir")
    /\ r.auto_update
    /\ r.probe = "failed"
    /\ r.result = NoResult

\* C24: once closeEvent has begun the close sequence the application quits,
\* whatever the CleanupWorker does; at most one CleanupWorker is started and
\* the body of _force_quit executes at most once
C24_CloseSequence ==
    /\ [](mw.app # "none" => mw.cleanup_workers <= 1 /\ mw.force_quits <= 1)
    /\ ((mw.app = "running" /\ mw._closing) ~> (mw.app = "quit"))

\* The application has quit while the CleanupWorker is stuck in a stop call
C24_Witness ==
    /\ mw.app = "quit"
    /\ mw.cw = "blocked"
    /\ mw.cleanup_workers = 1
    /\ mw.force_quits = 1
    /\ mw.done_events = 0

\* C25 as stated: every NoticeInfo fetch_latest_notice returns has the level
\* CRITICAL, IMPORTANT or INFO, and a level member that is absent, blank, no
\* string or any other string gives INFO
C25_Original ==
    (calc.op = "fetch_latest_notice" /\ calc.ret.has) =>
        \A given \in {calc.answer.level}, level \in {calc.ret.info.level} :
            /\ level \in {CRITICAL, IMPORTANT, INFO}
            /\ (\/ ~NonBlankStr(given)
                \/ upper(strip(given.s)) \notin {CRITICAL, IMPORTANT, INFO})
               => level = INFO

\* The string has no leading and no trailing blank and is not empty
Trimmed(s) == s # <<>> /\ Head(s) # " " /\ s[Len(s)] # " "

\* C26 as stated: for every CurrentState whose three fields are non-empty
\* strings, read_current_state after write_current_state returns it
C26_Original ==
    (/\ calc.op = "write_then_read"
     /\ calc.st.program_id # <<>>
     /\ calc.st.version # <<>>
     /\ calc.st.server_url # <<>>)
    => calc.ret = [ok |-> TRUE, st |-> calc.st]

\* C26, amended: for every CurrentState whose three fields are non-empty and
\* carry no leading or trailing whitespace, read_current_state after
\* write_current_state on the same path returns a state equal to the written
C26_RoundTrip ==
    (/\ calc.op = "write_then_read"
     /\ Trimmed(calc.st.program_id)
     /\ Trimmed(calc.st.version)
     /\ Trimmed(calc.st.server_url))
    => /\ calc.ret = [ok |-> TRUE, st |-> calc.st]
       /\ read_current_state(current_json) = calc.ret

\* The state of version 1.0.1 was written and read back
C26_Witness ==
    /\ calc.op = "write_then_read"
    /\ calc.st = CurrentState(PID, V101, URL)
    /\ current_json = StateJson(calc.st)
    /\ calc.ret.ok

\* C27: a close request handled while the UpdateWorker thread is running
\* leaves the window open and the thread where it stands, and no handler of
\* the window touches a run that has not emitted its completion event
C27_NoCancel ==
    /\ [][(CloseEvent /\ WorkerIsRunning)
            => (win' = "open" /\ worker' = worker /\ threads' = threads
                /\ r' = r /\ emitted' = emitted /\ doneq' = doneq)]_vars
    /\ [][(WindowStep /\ WorkerIsRunning /\ emitted[worker] = 0)
            => (win' = "open" /\ worker' = worker /\ threads' = threads
                /\ r' = r /\ emitted' = emitted)]_vars

\* The download is under way and a close request would reach closeEvent
C27_Witness ==
    /\ At("dl_chunk")
    /\ emitted[worker] = 0
    /\ ui.dialog = "none"
    /\ ENABLED CloseEvent

\* C28 as stated: once the user has accepted the update a check run reported
\* (the question box is answered and the window is still busy), a run is in
\* flight: its thread has yet to emit, or its completion event is queued
C28_Original ==
    (/\ win = "open"
     /\ ui.has_result
     /\ ui.last_result.ok
     /\ ui.last_result.update_available
     /\ ui.dialog = "none"
     /\ ui.buttons = Busy)
    => \/ doneq # <<>>
       \/ worker # 0 /\ isRunning(worker) /\ emitted[worker] = 0 /\ r.auto_update

\* C29: whenever the Run button is enabled, no run is under way and the last
\* completed run's result carries an exe_path
C29_RunButton ==
    (win = "open" /\ ui.buttons.btn_run) =>
        /\ ui.has_result
        /\ ui.last_result.exe_path.some
        /\ ~(worker # 0 /\ isRunning(worker) /\ emitted[worker] = 0)
        /\ ui.dialog = "none"

\* The user declined the update and Run is enabled for the installed version
C29_Witness ==
    /\ win = "open"
    /\ ui.buttons.btn_run
    /\ ui.has_result
    /\ ui.last_result.update_available
    /\ ui.last_result.exe_path.some

\* The run has fetched a latest_version that is no x.y.z version
C30_InvalidLatest ==
    /\ InRun
    /\ r.latest.latest_version # <<>>
    /\ r.latest.latest_version \notin ValidVersions

\* C30: a run whose fetched latest_version is a non-empty string that is no
\* three-component version goes from compare_versions straight to the
\* catch-all's Failed result, has emitted it once when run() returns, and
\* no step of it changes anything on disk
C30_InvalidVersionFails ==
    /\ [](C30_InvalidLatest =>
            /\ r.pc \in {"compare", "emit", "exit"}
            /\ r.pc # "compare" => r.result = Failed("unexpected error", NoPath)
            /\ r.pc = "exit" => emitted[worker] = 1
            /\ current_json = r.json0
            /\ Leftovers = r.left0)
    /\ [][C30_InvalidLatest => fs' = fs]_vars

\* An auto-update run that fetched "1.0" has emitted the catch-all's result
C30_Witness ==
    /\ C30_InvalidLatest
    /\ r.auto_update
    /\ r.latest.latest_version = V10
    /\ r.pc = "exit"
    /\ r.result = Failed("unexpected error", NoPath)
    /\ emitted[worker] = 1
====
